---- MODULE Spec2Model ----
(***************************************************************************)
(* A model of the cosmos chain adapter of hyperspace (CosmosClient and its *)
(* IbcProvider implementation): the light-client verifier the adapter      *)
(* owns, the key-value query layer, the event subscription pipeline and    *)
(* the transaction-search poll loop.                                       *)
(*                                                                         *)
(* Each component has its own specification (SpecVerifier, SpecQuery,      *)
(* SpecEvents, SpecTx); the variables of the other components stay at      *)
(* their initial values.                                                   *)
(***************************************************************************)
EXTENDS Integers, Sequences, FiniteSets, TLC

VARIABLES
    \* ---- light client (CosmosClient::light_client) and its callers
    trusted,      \* the verifier's trust anchor: [height, time, vals]
    now,          \* local clock, seconds
    chainHeight,  \* latest height of the remote chain (rpc status)
    lcLock,       \* 0 when no verification is running, else the task holding it
    vpc,          \* per task: "idle" or "verifying"
    vop,          \* per task: "verify" or "init_client_state"
    vcand,        \* per task: the candidate header being verified
    vbase,        \* per task: the trust anchor the running verification started from
    vres,         \* per task: the result of its last finished call
    \* ---- key-value query (CosmosClient::query)
    qpc,          \* "idle", "awaiting" (abci_query in flight) or "done"
    qreq,         \* the arguments of the current call: [path, height, prove]
    qnet,         \* the abci_query request this call put on the wire, if any
    qres,         \* the result of the call
    qop,          \* the operation called: "query" or "query_channel_end"
    qresp,        \* the answer to the request in flight, once received
    chres,        \* the result of query_channel_end
    \* ---- event subscription pipeline (ibc_events)
    evq,          \* per subscription: the notifications delivered, not yet polled
    evout,        \* the items the merged stream has yielded, in order
    evcount,      \* number of notifications the node has delivered
    evdone,       \* history: the notifications polled so far, with their subscription
    evstate,      \* ibc_events: "closed" (not called), "open" or "panicked"
    evsent,       \* history: per subscription, the notifications the node delivered, in order
    \* ---- transaction search (query_client_id_from_tx_hash)
    tpc,          \* "idle", "searching", "sleeping" or "done"
    elapsed,      \* milliseconds since start_time
    polls,        \* tx_search calls that returned, counted up to MaxCountedPolls
    included,     \* the node's search result for the hash: the tx response, if any
    tfound,       \* the response the poll loop broke with, and at which poll
    tres,         \* the result of the call
    opc,          \* another adapter operation on the same scheduler thread:
                  \* "idle", "running" or "done"
    \* ---- enumeration queries (query_clients, query_channels)
    epc,          \* "idle", "awaiting" (grpc call in flight) or "done"
    eop,          \* "query_clients" or "query_channels"
    eresp,        \* the entries of the node's response, once received
    eres,         \* the result of the call
    earg,         \* the client id given to query_connection_using_client
    \* ---- the adapter's construction, identity and unwired operations
    astate,       \* "unconstructed", "ready", "failed" (new returned Err) or "panicked"
    acfg,         \* the configuration given to new
    client_id,    \* Option<ClientId>: <<>> is None, <<id>> is Some(id)
    connection_id,\* Option<ConnectionId>
    clientIdSets, \* history: calls of set_client_id since construction, counted up to MaxCountedSets
    ares,         \* the last operation called on the adapter and its outcome
    \* ---- query_latest_ibc_events, as the finality protocol runs it
    fpc,          \* "idle", "verifying", "querying" or "done"
    fev,          \* the head announced by the finality event being handled
    fverdict,     \* what the verifier answered for this head: "None", "Ok" or an error
    fqueries,     \* the proof and state queries issued for this head
    fres          \* the result of the call

verifierVars == <<trusted, now, chainHeight, lcLock, vpc, vop, vcand, vbase, vres>>

queryVars == <<qpc, qreq, qnet, qres, qop, qresp, chres>>

eventVars == <<evq, evout, evcount, evdone, evstate, evsent>>

txVars == <<tpc, elapsed, polls, included, tfound, tres, opc>>

enumVars == <<epc, eop, eresp, eres, earg>>

facadeVars == <<astate, acfg, client_id, connection_id, clientIdSets, ares>>

finalityVars == <<fpc, fev, fverdict, fqueries, fres>>

vars == <<verifierVars, queryVars, eventVars, txVars, enumVars, facadeVars, finalityVars>>

----------------------------------------------------------------------------
(* Bounds *)

MaxHeight == 3

\* Two concurrent callers of the adapter
Tasks == {1, 2}

\* Representative instants (seconds): differences below, at and above the
\* clock drift and the trusting period all occur.
TimePoints == {0, 20, 64000, 64020}

----------------------------------------------------------------------------
(* Light client *)

TrustingPeriod == 64000
MaxClockDrift == 15
TrustNumerator == 1
TrustDenominator == 3

NoHeader == [height |-> 0, time |-> 0, vals |-> {}]
NoResult == [kind |-> "None", height |-> 0, advanced |-> FALSE, latest_height |-> 0]

\* The validator set of the remote chain at height h: one validator is
\* rotated out per block, so that two blocks apart have no validator in common.
ChainVals(h) == {h, h + 1}
ForgedVals == {0}

VerifyErrors == {"TrustError", "ExpiredTrustError", "TimeDriftError"}

\* Voting power of the trusted validator set backing the new one meets the
\* trust threshold.
HasTrust(baseVals, newVals) ==
    Cardinality(baseVals \cap newVals) * TrustDenominator
        >= Cardinality(baseVals) * TrustNumerator

\* Sequential verification with bisection: the target is verifiable directly
\* from the base, or through the header half way when the gap allows one.
RECURSIVE CanReach(_, _, _, _)
CanReach(baseH, baseVals, targetH, targetVals) ==
    IF HasTrust(baseVals, targetVals) THEN TRUE
    ELSE IF targetH - baseH <= 1 THEN FALSE
    ELSE LET pivot == (baseH + targetH) \div 2
         IN  /\ CanReach(baseH, baseVals, pivot, ChainVals(pivot))
             /\ CanReach(pivot, ChainVals(pivot), targetH, targetVals)

\* (mutant) verify without the guard on the candidate's height
VerifyOutcomeNoHeightGuard(base, cand, t) ==
    IF t - base.time > TrustingPeriod THEN "ExpiredTrustError"
    ELSE IF cand.time > t + MaxClockDrift THEN "TimeDriftError"
    ELSE IF ~CanReach(base.height, base.vals, cand.height, cand.vals)
         THEN "TrustError"
    ELSE "Advance"

\* verify: the outcome of verifying cand against the trust anchor base at
\* local time t. "Replay" is the no-op for a header not above the anchor.
VerifyOutcome(base, cand, t) ==
    IF cand.height <= base.height THEN "Replay"
    ELSE IF t - base.time > TrustingPeriod THEN "ExpiredTrustError"
    ELSE IF cand.time > t + MaxClockDrift THEN "TimeDriftError"
    ELSE IF ~CanReach(base.height, base.vals, cand.height, cand.vals)
         THEN "TrustError"
    ELSE "Advance"

VerifyResult(outcome, cand) ==
    IF outcome \in VerifyErrors
    THEN [kind |-> outcome, height |-> cand.height, advanced |-> FALSE,
          latest_height |-> 0]
    ELSE [kind |-> "Ok", height |-> cand.height, advanced |-> outcome = "Advance",
          latest_height |-> 0]

\* (mutant) initialize_client_state dropping the verifier's error
InitializeClientStateResultSwallow(outcome, cand) ==
    [kind |-> "Ok", height |-> cand.height, advanced |-> outcome = "Advance",
     latest_height |-> cand.height]

\* initialize_client_state: a rejected light block is returned as an error,
\* otherwise the client state at the latest height (latest_height) and the
\* consensus state of the verified light block (height).
InitializeClientStateResult(outcome, cand) ==
    IF outcome \in VerifyErrors
    THEN [kind |-> "Err", height |-> cand.height, advanced |-> FALSE,
          latest_height |-> 0]
    ELSE [kind |-> "Ok", height |-> cand.height, advanced |-> outcome = "Advance",
          latest_height |-> cand.height]

\* (mutant) no mutual exclusion between verifications
LockFreeAlways == TRUE

\* The verifier runs one verification at a time.
LockFree == lcLock = 0

Tick ==
    /\ \E t \in TimePoints : t > now /\ now' = t
    /\ UNCHANGED <<trusted, chainHeight, lcLock, vpc, vop, vcand, vbase, vres>>
    /\ UNCHANGED <<queryVars, eventVars, txVars, enumVars, facadeVars, finalityVars>>

NewBlock ==
    /\ chainHeight < MaxHeight
    /\ chainHeight' = chainHeight + 1
    /\ UNCHANGED <<trusted, now, lcLock, vpc, vop, vcand, vbase, vres>>
    /\ UNCHANGED <<queryVars, eventVars, txVars, enumVars, facadeVars, finalityVars>>

BeginVerify(t, op, cand) ==
    /\ vpc[t] = "idle"
    /\ LockFree
    /\ lcLock' = t
    /\ vpc' = [vpc EXCEPT ![t] = "verifying"]
    /\ vop' = [vop EXCEPT ![t] = op]
    /\ vcand' = [vcand EXCEPT ![t] = cand]
    /\ vbase' = [vbase EXCEPT ![t] = trusted]
    /\ vres' = [vres EXCEPT ![t] = NoResult]
    /\ UNCHANGED <<trusted, now, chainHeight>>
    /\ UNCHANGED <<queryVars, eventVars, txVars, enumVars, facadeVars, finalityVars>>

\* A verify call driven by a finality event: the node serves the target
\* light block, honest or not.
VerifyCall(t) ==
    \E h \in 1..chainHeight, tm \in TimePoints, forged \in BOOLEAN :
        BeginVerify(t, "verify",
            [height |-> h, time |-> tm,
             vals |-> IF forged THEN ForgedVals ELSE ChainVals(h)])

\* (mutant) initialize_client_state targeting the first height, not the latest
InitializeClientStateCallFirstHeight(t) ==
    \E tm \in TimePoints, forged \in BOOLEAN :
        BeginVerify(t, "init_client_state",
            [height |-> 1, time |-> tm,
             vals |-> IF forged THEN ForgedVals ELSE ChainVals(1)])

\* initialize_client_state up to its verify call: the target is the latest
\* height the node reports.
InitializeClientStateCall(t) ==
    \E tm \in TimePoints, forged \in BOOLEAN :
        BeginVerify(t, "init_client_state",
            [height |-> chainHeight, time |-> tm,
             vals |-> IF forged THEN ForgedVals ELSE ChainVals(chainHeight)])

\* initialize_client_state when the status call fails or the node is still
\* syncing: latest_height_and_timestamp is unwrapped, the task panics.
InitializeClientStatePanic(t) ==
    /\ vpc[t] = "idle"
    /\ vres[t].kind # "Panic"
    /\ vres' = [vres EXCEPT ![t] = [kind |-> "Panic", height |-> 0, advanced |-> FALSE, latest_height |-> 0]]
    /\ UNCHANGED <<trusted, now, chainHeight, lcLock, vpc, vop, vcand, vbase>>
    /\ UNCHANGED <<queryVars, eventVars, txVars, enumVars, facadeVars, finalityVars>>

VerifyReturn(t) ==
    /\ vpc[t] = "verifying"
    /\ LET outcome == VerifyOutcome(vbase[t], vcand[t], now)
       IN  /\ trusted' = IF outcome = "Advance" THEN vcand[t] ELSE trusted
           /\ vres' = [vres EXCEPT ![t] =
                  IF vop[t] = "init_client_state"
                  THEN InitializeClientStateResult(outcome, vcand[t])
                  ELSE VerifyResult(outcome, vcand[t])]
    /\ lcLock' = IF lcLock = t THEN 0 ELSE lcLock
    /\ vpc' = [vpc EXCEPT ![t] = "idle"]
    /\ vop' = [vop EXCEPT ![t] = "verify"]
    /\ vcand' = [vcand EXCEPT ![t] = NoHeader]
    /\ vbase' = [vbase EXCEPT ![t] = NoHeader]
    /\ UNCHANGED <<now, chainHeight>>
    /\ UNCHANGED <<queryVars, eventVars, txVars, enumVars, facadeVars, finalityVars>>

VerifierNext ==
    \/ Tick
    \/ NewBlock
    \/ \E t \in Tasks : VerifyCall(t)
    \/ \E t \in Tasks : InitializeClientStateCall(t)
    \/ \E t \in Tasks : InitializeClientStatePanic(t)
    \/ \E t \in Tasks : VerifyReturn(t)

----------------------------------------------------------------------------
(* Key-value query *)

\* Width of the machine words of the model: revision_height is an unsigned
\* word, a tendermint block height must fit the signed word.
WordBits == 3

U64Max == 2 ^ WordBits - 1
TmHeightMax == 2 ^ (WordBits - 1) - 1

Revisions == {0, 1}
QueryHeights == [revision_number : Revisions, revision_height : 0..U64Max]

Paths == {"ClientState", "ClientConnections", "Ports", "ChannelEnds"}

is_provable(path) == path \notin {"ClientConnections", "Ports"}

ResponseCodes == {0, 5}
Values == {"v1", "v2", "junk"}
Proofs == {"none", "p1"}
Logs == {"", "not found"}
QueryOps == {"query", "query_channel_end"}

NoRequest == [sent |-> FALSE, path |-> "", some_height |-> FALSE, height |-> 0,
              prove |-> FALSE]
NoArgs == [path |-> "", height |-> [revision_number |-> 0, revision_height |-> 0],
           prove |-> FALSE]
NoQueryResult == [kind |-> "None", code |-> 0, log |-> "", value |-> "", proof |-> ""]
NoAbciResponse == [received |-> FALSE, ok |-> FALSE, code |-> 0, log |-> "",
                   value |-> "", proof |-> ""]
NoChannelResult == [kind |-> "None", channel |-> "", proof |-> "", proof_height |-> 0]

QueryError(kind, code) ==
    [kind |-> kind, code |-> code, log |-> "", value |-> "", proof |-> ""]

\* TmHeight::try_from(u64)
TmHeightFits(h) == h <= TmHeightMax

\* (mutant) the request is built without looking at the path's provability
QueryLocalErrorNoProvableCheck(path, height, prove) ==
    IF ~TmHeightFits(height.revision_height) THEN "InvalidHeight"
    ELSE "None"

\* query, up to the network call: the error it returns without a request,
\* "None" when the request goes out.
QueryLocalError(path, height, prove) ==
    IF ~TmHeightFits(height.revision_height) THEN "InvalidHeight"
    ELSE IF ~is_provable(path) /\ prove THEN "UnprovablePath"
    ELSE "None"

\* (mutant) the height is always put in the request, zero included
AbciRequestAlwaysHeight(path, height, prove) ==
    [sent |-> TRUE, path |-> path,
     some_height |-> TRUE,
     height |-> height.revision_height,
     prove |-> prove]

\* The abci_query request of a call that passed the local checks.
AbciRequest(path, height, prove) ==
    [sent |-> TRUE, path |-> path,
     some_height |-> height.revision_height # 0,
     height |-> height.revision_height,
     prove |-> prove]

\* (mutant) the response is returned whatever its code
QueryResponseResultIgnoreCode(resp) ==
    IF ~resp.ok THEN QueryError("Transport", 0)
    ELSE [kind |-> "Ok", code |-> resp.code, log |-> resp.log,
          value |-> resp.value, proof |-> resp.proof]

\* query, after the network call.
QueryResponseResult(resp) ==
    IF ~resp.ok THEN QueryError("Transport", 0)
    ELSE IF resp.code # 0
    THEN [kind |-> "QueryRejected", code |-> resp.code, log |-> resp.log,
          value |-> "", proof |-> ""]
    ELSE [kind |-> "Ok", code |-> resp.code, log |-> resp.log,
          value |-> resp.value, proof |-> resp.proof]

\* ChannelEnd::decode_vec
DecodesChannelEnd(value) == value \in {"v1", "v2"}
ChannelEndOf(value) == IF value = "v1" THEN "Open" ELSE "Init"

\* query_channel_end, after its call of query returned res.
ChannelEndResult(res, at) ==
    IF res.kind # "Ok"
    THEN [kind |-> "Err", channel |-> "", proof |-> "", proof_height |-> 0]
    ELSE IF ~DecodesChannelEnd(res.value)
    THEN [kind |-> "DecodeError", channel |-> "", proof |-> "", proof_height |-> 0]
    ELSE [kind |-> "Ok", channel |-> ChannelEndOf(res.value), proof |-> "none",
          proof_height |-> at.revision_height]

\* The result the called operation returns once query returned res.
OperationResult(op, res, at) ==
    IF op = "query_channel_end" THEN ChannelEndResult(res, at) ELSE NoChannelResult

QueryCall ==
    /\ qpc \in {"idle", "done"}
    /\ \E op \in QueryOps, path \in Paths, height \in QueryHeights, prove \in BOOLEAN :
          LET err == QueryLocalError(path, height, prove)
          IN  /\ op = "query_channel_end" => path = "ChannelEnds" /\ prove
              /\ qop' = op
              /\ qreq' = [path |-> path, height |-> height, prove |-> prove]
              /\ qresp' = NoAbciResponse
              /\ IF err # "None"
                 THEN /\ qpc' = "done"
                      /\ qnet' = NoRequest
                      /\ qres' = QueryError(err, 0)
                      /\ chres' = OperationResult(op, qres', height)
                 ELSE /\ qpc' = "awaiting"
                      /\ qnet' = AbciRequest(path, height, prove)
                      /\ qres' = NoQueryResult
                      /\ chres' = NoChannelResult
    /\ UNCHANGED <<verifierVars, eventVars, txVars, enumVars, facadeVars, finalityVars>>

\* The node (or the transport) answers the request in flight.
QueryReturn ==
    /\ qpc = "awaiting"
    /\ \E ok \in BOOLEAN, code \in ResponseCodes, log \in Logs, value \in Values,
          proof \in Proofs :
          /\ (~qnet.prove => proof = "none")
          /\ qresp' = [received |-> TRUE, ok |-> ok, code |-> code, log |-> log,
                       value |-> value, proof |-> proof]
          /\ qres' = QueryResponseResult(qresp')
          /\ chres' = OperationResult(qop, qres', qreq.height)
    /\ qpc' = "done"
    /\ UNCHANGED <<qreq, qnet, qop>>
    /\ UNCHANGED <<verifierVars, eventVars, txVars, enumVars, facadeVars, finalityVars>>

QueryNext == QueryCall \/ QueryReturn

----------------------------------------------------------------------------
(* Raw chain events and their parsing *)

\* Raw events: kind is the abci event type, attr its identifying attribute
\* (0 stands for an attribute that does not parse).
RawCreate1 == [kind |-> "create_client", attr |-> 1]
RawCreate2 == [kind |-> "create_client", attr |-> 2]
RawCreateBad == [kind |-> "create_client", attr |-> 0]
RawUpdate == [kind |-> "update_client", attr |-> 1]
RawConn == [kind |-> "connection_open_init", attr |-> 1]
RawChan == [kind |-> "send_packet", attr |-> 1]
RawMsg == [kind |-> "message", attr |-> 1]

\* The event lists of the transactions the node serves.
SampleTxs ==
    { <<>>, <<RawCreate1>>, <<RawCreate1, RawChan>>, <<RawChan, RawCreate2>>,
      <<RawMsg, RawCreate1>>, <<RawCreate1, RawCreate2>>, <<RawCreateBad, RawCreate1>>,
      <<RawConn>>, <<RawUpdate, RawChan>>, <<RawCreateBad, RawConn, RawChan>> }

IbcEventType(kind) ==
    CASE kind = "create_client" -> "CreateClient"
      [] kind = "update_client" -> "UpdateClient"
      [] kind = "connection_open_init" -> "OpenInitConnection"
      [] kind = "send_packet" -> "SendPacket"
      [] OTHER -> "Unknown"

\* ibc_event_try_from_abci_event: an IBC event type whose attributes parse.
ParsesAsIbcEvent(raw) == IbcEventType(raw.kind) # "Unknown" /\ raw.attr # 0

ibc_event_try_from_abci_event(raw) == [type |-> IbcEventType(raw.kind), id |-> raw.attr]

event_is_type_client(ev) == ev.type \in {"CreateClient", "UpdateClient"}
event_is_type_connection(ev) == ev.type \in {"OpenInitConnection"}
event_is_type_channel(ev) == ev.type \in {"SendPacket"}

----------------------------------------------------------------------------
(* Event subscription pipeline *)

MaxNotifs == 2

NewBlockQuery == <<"tm.event", "NewBlock">>
ModuleQuery(module) == <<"message.module", module>>

\* query_all: one subscription per query, in this order
query_all == << NewBlockQuery, ModuleQuery("ibc_client"),
                ModuleQuery("ibc_connection"), ModuleQuery("ibc_channel") >>

Sources == DOMAIN query_all

\* What a subscription can deliver: a new block, a transaction result, or an
\* error of the transport.
Notifications(s) ==
    {[data |-> "NewBlock", height |-> h, events |-> <<>>, query |-> query_all[s]] :
        h \in 1..2}
    \cup {[data |-> "Tx", height |-> 0, events |-> tx, query |-> query_all[s]] :
        tx \in SampleTxs}
    \cup {[data |-> "Error", height |-> 0, events |-> <<>>, query |-> query_all[s]]}

\* (mutant) the subscription's module is not compared with the event's type
KeepEventAnyModule(query, ibc_event) ==
    \/ query = ModuleQuery("ibc_client")
    \/ query = ModuleQuery("ibc_connection")
    \/ query = ModuleQuery("ibc_channel")

\* The if / else-if chain deciding whether a parsed event is pushed.
KeepEvent(query, ibc_event) ==
    IF query = ModuleQuery("ibc_client") /\ event_is_type_client(ibc_event) THEN TRUE
    ELSE IF query = ModuleQuery("ibc_connection") /\ event_is_type_connection(ibc_event)
         THEN TRUE
    ELSE IF query = ModuleQuery("ibc_channel") /\ event_is_type_channel(ibc_event)
         THEN TRUE
    ELSE FALSE

\* (mutant) the scan ends at the first raw event that does not parse
RECURSIVE TxEventsStopAtMalformed(_, _)
TxEventsStopAtMalformed(query, raws) ==
    IF raws = <<>> THEN <<>>
    ELSE LET raw == Head(raws)
         IN  IF ~ParsesAsIbcEvent(raw) THEN <<>>
             ELSE IF KeepEvent(query, ibc_event_try_from_abci_event(raw))
             THEN <<ibc_event_try_from_abci_event(raw)>>
                      \o TxEventsStopAtMalformed(query, Tail(raws))
             ELSE TxEventsStopAtMalformed(query, Tail(raws))

\* The scan of a transaction result's raw events.
RECURSIVE TxEvents(_, _)
TxEvents(query, raws) ==
    IF raws = <<>> THEN <<>>
    ELSE LET raw == Head(raws)
             rest == TxEvents(query, Tail(raws))
         IN  IF ParsesAsIbcEvent(raw)
                  /\ KeepEvent(query, ibc_event_try_from_abci_event(raw))
             THEN <<ibc_event_try_from_abci_event(raw)>> \o rest
             ELSE rest

\* The closure mapped over the merged stream: the events one notification
\* turns into.
NotificationEvents(n) ==
    CASE n.data = "NewBlock" /\ n.query = NewBlockQuery ->
            << [type |-> "NewBlock", id |-> n.height] >>
      [] n.data = "Tx" -> TxEvents(n.query, n.events)
      [] OTHER -> <<>>

Yielded(s, n) ==
    IF n.data = "Error"
    THEN << [src |-> s, ok |-> FALSE, ev |-> [type |-> "SubscriptionError", id |-> 0]] >>
    ELSE LET evs == NotificationEvents(n)
         IN  [i \in 1..Len(evs) |-> [src |-> s, ok |-> TRUE, ev |-> evs[i]]]

\* ibc_events connects the websocket, subscribes to the queries of query_all
\* and returns the merged stream.
IbcEventsCall ==
    /\ evstate = "closed"
    /\ evstate' = "open"
    /\ UNCHANGED <<evq, evout, evcount, evdone, evsent>>
    /\ UNCHANGED <<verifierVars, queryVars, txVars, enumVars, facadeVars, finalityVars>>

\* WebSocketClient::new fails: the error is unwrapped.
IbcEventsConnectFails ==
    /\ evstate = "closed"
    /\ evstate' = "panicked"
    /\ UNCHANGED <<evq, evout, evcount, evdone, evsent>>
    /\ UNCHANGED <<verifierVars, queryVars, txVars, enumVars, facadeVars, finalityVars>>

\* The node delivers a notification on one subscription.
NodeDeliver(s) ==
    /\ evstate = "open"
    /\ evcount < MaxNotifs
    /\ \E n \in Notifications(s) :
          /\ evq' = [evq EXCEPT ![s] = Append(@, n)]
          /\ evsent' = [evsent EXCEPT ![s] = Append(@, n)]
    /\ evcount' = evcount + 1
    /\ UNCHANGED <<evout, evdone, evstate>>
    /\ UNCHANGED <<verifierVars, queryVars, txVars, enumVars, facadeVars, finalityVars>>

\* (mutant) the newest pending item of the subscription is taken first
PollItemNewest(pending) ==
    [item |-> pending[Len(pending)], rest |-> SubSeq(pending, 1, Len(pending) - 1)]

\* A subscription polled by select_all gives its oldest pending item.
PollItem(pending) == [item |-> Head(pending), rest |-> Tail(pending)]

\* select_all polls a subscription that has an item; the item is mapped and
\* flattened into the output stream.
StreamNext(s) ==
    /\ evstate = "open"
    /\ evq[s] # <<>>
    /\ evq' = [evq EXCEPT ![s] = PollItem(evq[s]).rest]
    /\ evout' = evout \o Yielded(s, PollItem(evq[s]).item)
    /\ evdone' = Append(evdone, [src |-> s, notif |-> PollItem(evq[s]).item])
    /\ UNCHANGED <<evcount, evstate, evsent>>
    /\ UNCHANGED <<verifierVars, queryVars, txVars, enumVars, facadeVars, finalityVars>>

EventsNext ==
    \/ IbcEventsCall
    \/ IbcEventsConnectFails
    \/ \E s \in Sources : NodeDeliver(s)
    \/ \E s \in Sources : StreamNext(s)

----------------------------------------------------------------------------
(* Transaction search *)

WAIT_BACKOFF == 300
TIME_OUT == 30000

\* polls are counted up to this number
MaxCountedPolls == 4

\* How long a tx_search call takes, and by how much a sleep overshoots (ms)
SearchLatencies == {0, 100, 2000}
SleepOvershoot == {0, 100}

TxCodes == {0, 11}
LogOf(code) == IF code = 0 THEN "" ELSE "out of gas"

NoResponse == [found |-> FALSE, code |-> 0, log |-> "", events |-> <<>>]
NoFound == [poll |-> 0, response |-> NoResponse]
NoTxResult == [kind |-> "None", client_id |-> <<>>, code |-> 0, log |-> "", count |-> 0]

\* The transactions the node can hold under the searched hash.
Responses ==
    {[found |-> TRUE, code |-> c, log |-> LogOf(c), events |-> tx] :
        c \in TxCodes, tx \in SampleTxs}

TxError(kind, code, log, count) ==
    [kind |-> kind, client_id |-> <<>>, code |-> code, log |-> log, count |-> count]

\* client_extract_attributes_from_tx: the attributes of a client-creation
\* event, when they parse.
IsCreateClient(raw) == raw.kind = "create_client" /\ raw.attr # 0
ClientIdOf(raw) == <<"07-tendermint", raw.attr>>

\* The flat_map over the transaction's events: one CreateClient per event
\* whose attributes were extracted.
RECURSIVE CreateClientEvents(_)
CreateClientEvents(raws) ==
    IF raws = <<>> THEN <<>>
    ELSE (IF IsCreateClient(Head(raws))
          THEN << [type |-> "CreateClient", client_id |-> ClientIdOf(Head(raws))] >>
          ELSE <<>>) \o CreateClientEvents(Tail(raws))

\* (mutant) the events are extracted whatever the execution code
TxOutcomeIgnoreCode(response) ==
    LET result == CreateClientEvents(response.events)
    IN  IF Len(result) # 1
        THEN TxError("UnexpectedEventCount", 0, "", Len(result))
        ELSE [kind |-> "Ok", client_id |-> result[1].client_id, code |-> 0,
              log |-> "", count |-> 1]

\* (mutant) the first creation event is taken when there are several
TxOutcomeFirstOfMany(response) ==
    IF response.code # 0
    THEN TxError("TransactionExecutionError", response.code, response.log, 0)
    ELSE LET result == CreateClientEvents(response.events)
         IN  IF Len(result) < 1
             THEN TxError("UnexpectedEventCount", 0, "", Len(result))
             ELSE [kind |-> "Ok", client_id |-> result[1].client_id, code |-> 0,
                   log |-> "", count |-> 1]

\* What the call returns for the transaction the poll loop found.
TxOutcome(response) ==
    IF response.code # 0
    THEN TxError("TransactionExecutionError", response.code, response.log, 0)
    ELSE LET result == CreateClientEvents(response.events)
         IN  IF Len(result) # 1
             THEN TxError("UnexpectedEventCount", 0, "", Len(result))
             ELSE [kind |-> "Ok", client_id |-> result[1].client_id, code |-> 0,
                   log |-> "", count |-> 1]

\* (mutant) the time out never passes
TimedOutNever(el) == FALSE

\* (mutant) the elapsed time is compared with the wrong constant
TimedOutWrongConstant(el) == el > WAIT_BACKOFF

TimedOut(el) == el > TIME_OUT

\* (mutant) a matching transaction does not end the loop
PollStepNoBreak(response, el) ==
    IF TimedOut(el) THEN "timeout" ELSE "sleep"

\* One turn of the poll loop after tx_search returned: the match on the
\* first transaction of the response.
PollStep(response, el) ==
    IF response.found THEN "break"
    ELSE IF TimedOut(el) THEN "timeout"
    ELSE "sleep"

CountPoll(n) == IF n < MaxCountedPolls THEN n + 1 ELSE n

TxCall ==
    /\ tpc \in {"idle", "done"}
    /\ tpc' = "searching"
    /\ elapsed' = 0
    /\ polls' = 0
    /\ included' = NoResponse
    /\ tfound' = NoFound
    /\ tres' = NoTxResult
    /\ UNCHANGED opc
    /\ UNCHANGED <<verifierVars, queryVars, eventVars, enumVars, facadeVars, finalityVars>>

\* The transaction is included in a block of the chain.
ChainInclude ==
    /\ tpc \in {"searching", "sleeping"}
    /\ ~included.found
    /\ included' \in Responses
    /\ UNCHANGED <<tpc, elapsed, polls, tfound, tres, opc>>
    /\ UNCHANGED <<verifierVars, queryVars, eventVars, enumVars, facadeVars, finalityVars>>

\* tx_search fails at the transport.
SearchFails ==
    /\ tpc = "searching"
    /\ \E d \in SearchLatencies : elapsed' = elapsed + d
    /\ polls' = CountPoll(polls)
    /\ tpc' = "done"
    /\ tres' = TxError("TransportError", 0, "", 0)
    /\ UNCHANGED <<included, tfound, opc>>
    /\ UNCHANGED <<verifierVars, queryVars, eventVars, enumVars, facadeVars, finalityVars>>

\* tx_search returns, and the loop body and what follows the loop run.
SearchReturns ==
    /\ tpc = "searching"
    /\ \E d \in SearchLatencies : elapsed' = elapsed + d
    /\ polls' = CountPoll(polls)
    /\ LET step == PollStep(included, elapsed')
       IN  CASE step = "break" ->
                   /\ tfound' = [poll |-> polls', response |-> included]
                   /\ tres' = TxOutcome(included)
                   /\ tpc' = "done"
             [] step = "timeout" ->
                   /\ tres' = TxError("InclusionTimeout", 0, "", 0)
                   /\ tpc' = "done"
                   /\ UNCHANGED tfound
             [] OTHER ->
                   /\ tpc' = "sleeping"
                   /\ UNCHANGED <<tfound, tres>>
    /\ UNCHANGED <<included, opc>>
    /\ UNCHANGED <<verifierVars, queryVars, eventVars, enumVars, facadeVars, finalityVars>>

\* std::thread::sleep(WAIT_BACKOFF) returns.
SleepReturns ==
    /\ tpc = "sleeping"
    /\ \E x \in SleepOvershoot : elapsed' = elapsed + WAIT_BACKOFF + x
    /\ tpc' = "searching"
    /\ UNCHANGED <<polls, included, tfound, tres, opc>>
    /\ UNCHANGED <<verifierVars, queryVars, eventVars, enumVars, facadeVars, finalityVars>>

\* The scheduler thread can run a task: std::thread::sleep keeps the thread
\* for the whole wait.
ThreadFree == tpc # "sleeping"

\* Another operation of the adapter is started on the same scheduler.
OtherCall ==
    /\ opc \in {"idle", "done"}
    /\ ThreadFree
    /\ opc' = "running"
    /\ UNCHANGED <<tpc, elapsed, polls, included, tfound, tres>>
    /\ UNCHANGED <<verifierVars, queryVars, eventVars, enumVars, facadeVars, finalityVars>>

\* The other operation is polled by the scheduler and completes.
OtherStep ==
    /\ opc = "running"
    /\ ThreadFree
    /\ opc' = "done"
    /\ UNCHANGED <<tpc, elapsed, polls, included, tfound, tres>>
    /\ UNCHANGED <<verifierVars, queryVars, eventVars, enumVars, facadeVars, finalityVars>>

TxNext ==
    \/ TxCall
    \/ ChainInclude
    \/ SearchFails
    \/ SearchReturns
    \/ SleepReturns
    \/ OtherCall
    \/ OtherStep

----------------------------------------------------------------------------
(* Enumeration queries *)

MaxEntries == 3

\* Identifiers as the node sends them: strings over a few characters.
ValidChars == {"c", "p", "-", "0", "1"}
IdClient0 == <<"c", "-", "0">>
IdClient1 == <<"c", "-", "1">>
IdSlash == <<"c", "/", "0">>
IdEmpty == <<>>
IdPort == <<"p">>

RawIds == {IdClient0, IdClient1, IdSlash, IdEmpty}
RawPortIds == {IdPort, IdSlash}

\* ClientId / ChannelId / PortId ::from_str: the identifier is not empty and
\* holds valid characters only (no path separator).
ValidIdentifier(raw) == raw # <<>> /\ \A i \in DOMAIN raw : raw[i] \in ValidChars

ParsedId(type, raw) == [type |-> type, str |-> raw]

ClientEntries == {[client_id |-> id] : id \in RawIds}
ChannelEntries == {[channel_id |-> id, port_id |-> port] : id \in RawIds, port \in RawPortIds}

ConnectionEntries ==
    {[id |-> id, client_id |-> client] :
        id \in {IdClient0, IdSlash}, client \in {IdClient0, IdClient1, IdSlash}}

EnumOps == {"query_clients", "query_channels", "query_connection_using_client"}

\* The client ids a caller asks the connections of
ClientIdArgs == {IdClient0, IdClient1}

EntriesOf(op) ==
    CASE op = "query_clients" -> ClientEntries
      [] op = "query_channels" -> ChannelEntries
      [] OTHER -> ConnectionEntries

EntryLists(entries) == UNION {[1..n -> entries] : n \in 0..MaxEntries}

NoEnumResult == [kind |-> "None", list |-> <<>>]

\* The closure of query_clients' filter_map
ClientOfEntry(cs) ==
    IF ValidIdentifier(cs.client_id)
    THEN << ParsedId("ClientId", cs.client_id) >>
    ELSE <<>>

\* The closure of query_channels' filter_map
ChannelOfEntry(c) ==
    IF ~ValidIdentifier(c.channel_id) THEN <<>>
    ELSE IF ~ValidIdentifier(c.port_id) THEN <<>>
    ELSE << <<ParsedId("ChannelId", c.channel_id), ParsedId("PortId", c.port_id)>> >>

\* The closure of query_connection_using_client's filter_map:
\* IdentifiedConnection::try_from(co).ok()
ConnectionOfEntry(co) ==
    IF ValidIdentifier(co.id) /\ ValidIdentifier(co.client_id)
    THEN << [type |-> "IdentifiedConnection",
             connection_id |-> ParsedId("ConnectionId", co.id),
             client_id |-> ParsedId("ClientId", co.client_id)] >>
    ELSE <<>>

EntryOf(op, e) ==
    CASE op = "query_clients" -> ClientOfEntry(e)
      [] op = "query_channels" -> ChannelOfEntry(e)
      [] OTHER -> ConnectionOfEntry(e)

RECURSIVE FilterMap(_, _)
FilterMap(op, entries) ==
    IF entries = <<>> THEN <<>>
    ELSE EntryOf(op, Head(entries)) \o FilterMap(op, Tail(entries))

\* (mutant) the entries are collected into a Result: one entry that does not
\* parse fails the call
EnumResultFailOnMalformed(op, entries) ==
    IF \E i \in DOMAIN entries : EntryOf(op, entries[i]) = <<>>
    THEN [kind |-> "Err", list |-> <<>>]
    ELSE [kind |-> "Ok", list |-> FilterMap(op, entries)]

\* What query_clients / query_channels return for the node's response.
EnumResult(op, entries) == [kind |-> "Ok", list |-> FilterMap(op, entries)]

EnumCall ==
    /\ epc \in {"idle", "done"}
    /\ \E op \in EnumOps, client \in ClientIdArgs :
          /\ eop' = op
          /\ earg' = IF op = "query_connection_using_client" THEN client ELSE IdEmpty
    /\ epc' = "awaiting"
    /\ eresp' = <<>>
    /\ eres' = NoEnumResult
    /\ UNCHANGED <<verifierVars, queryVars, eventVars, txVars, facadeVars, finalityVars>>

\* Connecting the grpc client or the call itself fails.
EnumFails ==
    /\ epc = "awaiting"
    /\ epc' = "done"
    /\ eres' = [kind |-> "Err", list |-> <<>>]
    /\ UNCHANGED <<eop, eresp, earg>>
    /\ UNCHANGED <<verifierVars, queryVars, eventVars, txVars, facadeVars, finalityVars>>

\* The node's response arrives and is filtered.
EnumReturn ==
    /\ epc = "awaiting"
    /\ \E entries \in EntryLists(EntriesOf(eop)) :
          /\ eresp' = entries
          /\ eres' = EnumResult(eop, entries)
    /\ epc' = "done"
    /\ UNCHANGED <<eop, earg>>
    /\ UNCHANGED <<verifierVars, queryVars, eventVars, txVars, facadeVars, finalityVars>>

EnumNext == EnumCall \/ EnumFails \/ EnumReturn

----------------------------------------------------------------------------
(* Construction, identity and unwired operations of the adapter *)

MaxCountedSets == 2

\* Option values: None is the empty sequence, Some(x) is <<x>>.
None == <<>>
Some(x) == <<x>>
IsSome(opt) == opt # <<>>

ConfigClientIds == {None, Some(IdClient0), Some(IdSlash)}
ConfigConnectionIds == {None, Some(IdClient1)}

Configs ==
    [client_id : ConfigClientIds, connection_id : ConfigConnectionIds,
     rpc_url_ok : BOOLEAN, light_client_ok : BOOLEAN, key_ok : BOOLEAN,
     store_prefix_ok : BOOLEAN]

NoConfig ==
    [client_id |-> None, connection_id |-> None, rpc_url_ok |-> FALSE,
     light_client_ok |-> FALSE, key_ok |-> FALSE, store_prefix_ok |-> FALSE]

NoOutcome == [op |-> "", kind |-> "None", value |-> None]

\* ClientId::new(ctype, counter): the identifier "ctype-counter", validated.
ClientIdNew(ctype, counter) == ParsedId("ClientId", ctype \o <<"-", counter>>)

\* Client ids of the counterparty, as query_clients returns them.
KnownClientIds == {ParsedId("ClientId", IdClient0), ParsedId("ClientId", IdClient1)}

\* new: the state of the adapter after the call, and the fields it built.
NewOutcome(config) ==
    IF ~config.rpc_url_ok
    THEN [state |-> "failed", client_id |-> None, connection_id |-> None]
    ELSE IF ~IsSome(config.client_id)
    THEN [state |-> "panicked", client_id |-> None, connection_id |-> None]
    ELSE IF ~ValidIdentifier(config.client_id[1])
    THEN [state |-> "failed", client_id |-> None, connection_id |-> None]
    ELSE IF ~config.light_client_ok \/ ~config.key_ok \/ ~config.store_prefix_ok
    THEN [state |-> "failed", client_id |-> None, connection_id |-> None]
    ELSE [state |-> "ready",
          client_id |-> Some(ClientIdNew(config.client_id[1], "0")),
          connection_id |-> None]

New ==
    /\ astate = "unconstructed"
    /\ \E config \in Configs :
          /\ acfg' = config
          /\ astate' = NewOutcome(config).state
          /\ client_id' = NewOutcome(config).client_id
          /\ connection_id' = NewOutcome(config).connection_id
    /\ UNCHANGED <<clientIdSets, ares>>
    /\ UNCHANGED <<verifierVars, queryVars, eventVars, txVars, enumVars, finalityVars>>

set_client_id ==
    /\ astate = "ready"
    /\ \E id \in KnownClientIds : client_id' = Some(id)
    /\ clientIdSets' = IF clientIdSets < MaxCountedSets THEN clientIdSets + 1
                                                        ELSE clientIdSets
    /\ ares' = [op |-> "set_client_id", kind |-> "Ok", value |-> None]
    /\ UNCHANGED <<astate, acfg, connection_id>>
    /\ UNCHANGED <<verifierVars, queryVars, eventVars, txVars, enumVars, finalityVars>>

\* client_id() and connection_id(): the stored option, unwrapped.
GetterOutcome(op, opt) ==
    IF IsSome(opt) THEN [op |-> op, kind |-> "Ok", value |-> opt]
    ELSE [op |-> op, kind |-> "Panic", value |-> None]

ReadIdentity ==
    /\ astate = "ready"
    /\ \/ ares' = GetterOutcome("client_id", client_id)
       \/ ares' = GetterOutcome("connection_id", connection_id)
    /\ UNCHANGED <<astate, acfg, client_id, connection_id, clientIdSets>>
    /\ UNCHANGED <<verifierVars, queryVars, eventVars, txVars, enumVars, finalityVars>>

\* Operations whose body is todo!()
TodoOps ==
    {"submit_create_client_msg", "query_client_consensus", "query_client_state",
     "query_proof", "query_packet_commitment", "query_packet_acknowledgement",
     "query_next_sequence_recv", "query_packet_receipt", "query_packet_commitments",
     "query_packet_acknowledgements", "query_unreceived_packets",
     "query_unreceived_acknowledgements", "channel_whitelist", "query_send_packets",
     "query_recv_packets", "query_client_update_time_and_height",
     "query_host_consensus_state_proof", "query_ibc_balance", "connection_prefix",
     "is_update_required"}

\* Operations that ignore their arguments and return Ok(())
NoOpOps == {"transfer_tokens", "submit_call"}

UnwiredOps == TodoOps \cup NoOpOps

UnwiredOutcome(op) ==
    IF op \in TodoOps THEN [op |-> op, kind |-> "Panic", value |-> None]
    ELSE [op |-> op, kind |-> "Ok", value |-> None]

CallUnwired ==
    /\ astate = "ready"
    /\ \E op \in UnwiredOps : ares' = UnwiredOutcome(op)
    /\ UNCHANGED <<astate, acfg, client_id, connection_id, clientIdSets>>
    /\ UNCHANGED <<verifierVars, queryVars, eventVars, txVars, enumVars, finalityVars>>

FacadeNext == New \/ set_client_id \/ ReadIdentity \/ CallUnwired

----------------------------------------------------------------------------
(* query_latest_ibc_events *)

ProofQueries == {"client_state", "consensus_proof"}
EventBatches == {<<>>, <<"SendPacket">>}
UpdateKinds == {"Mandatory", "Optional"}

NoFinalityResult == [kind |-> "None", payload |-> 0, events |-> <<>>, update |-> ""]

\* (mutant) the queries are made whatever the verifier answered
AfterVerifyAlwaysQuery(outcome) == "querying"

\* Where the protocol goes once the verifier answered.
AfterVerify(outcome) == IF outcome \in VerifyErrors THEN "done" ELSE "querying"

\* A finality event arrives and query_latest_ibc_events is called with it.
QueryLatestIbcEventsCall ==
    /\ fpc \in {"idle", "done"}
    /\ \E h \in 1..chainHeight, tm \in TimePoints, forged \in BOOLEAN :
          fev' = [height |-> h, time |-> tm,
                  vals |-> IF forged THEN ForgedVals ELSE ChainVals(h)]
    /\ fpc' = "verifying"
    /\ fverdict' = "None"
    /\ fqueries' = {}
    /\ fres' = NoFinalityResult
    /\ UNCHANGED <<verifierVars, queryVars, eventVars, txVars, enumVars, facadeVars>>

\* (a) the verifier authenticates the new head.
FinalityVerify ==
    /\ fpc = "verifying"
    /\ LockFree
    /\ LET outcome == VerifyOutcome(trusted, fev, now)
       IN  /\ trusted' = IF outcome = "Advance" THEN fev ELSE trusted
           /\ fverdict' = IF outcome \in VerifyErrors THEN outcome ELSE "Ok"
           /\ fpc' = AfterVerify(outcome)
           /\ fres' = IF AfterVerify(outcome) = "done"
                      THEN [kind |-> outcome, payload |-> 0, events |-> <<>>, update |-> ""]
                      ELSE fres
    /\ UNCHANGED <<fev, fqueries>>
    /\ UNCHANGED <<now, chainHeight, lcLock, vpc, vop, vcand, vbase, vres>>
    /\ UNCHANGED <<queryVars, eventVars, txVars, enumVars, facadeVars>>

\* (b) a proof or state query needed to express the update.
FinalityQuery ==
    /\ fpc = "querying"
    /\ \E q \in ProofQueries \ fqueries : fqueries' = fqueries \cup {q}
    /\ UNCHANGED <<fpc, fev, fverdict, fres>>
    /\ UNCHANGED <<verifierVars, queryVars, eventVars, txVars, enumVars, facadeVars>>

\* (c), (d) the events of the block are collected and the triple is returned.
FinalityReturn ==
    /\ fpc = "querying"
    /\ fqueries = ProofQueries
    /\ \E events \in EventBatches, kind \in UpdateKinds :
          fres' = [kind |-> "Ok", payload |-> fev.height, events |-> events,
                   update |-> kind]
    /\ fpc' = "done"
    /\ UNCHANGED <<fev, fverdict, fqueries>>
    /\ UNCHANGED <<verifierVars, queryVars, eventVars, txVars, enumVars, facadeVars>>

FinalityNext ==
    \/ Tick
    \/ NewBlock
    \/ QueryLatestIbcEventsCall
    \/ FinalityVerify
    \/ FinalityQuery
    \/ FinalityReturn

----------------------------------------------------------------------------
(* Specifications: one per component, from the state after construction *)

Init ==
    /\ trusted = [height |-> 1, time |-> 0, vals |-> ChainVals(1)]
    /\ now = 0
    /\ chainHeight = 1
    /\ lcLock = 0
    /\ vpc = [t \in Tasks |-> "idle"]
    /\ vop = [t \in Tasks |-> "verify"]
    /\ vcand = [t \in Tasks |-> NoHeader]
    /\ vbase = [t \in Tasks |-> NoHeader]
    /\ vres = [t \in Tasks |-> NoResult]
    /\ qpc = "idle"
    /\ qreq = NoArgs
    /\ qnet = NoRequest
    /\ qres = NoQueryResult
    /\ qop = "query"
    /\ qresp = NoAbciResponse
    /\ chres = NoChannelResult
    /\ evq = [s \in Sources |-> <<>>]
    /\ evout = <<>>
    /\ evcount = 0
    /\ evdone = <<>>
    /\ evstate = "closed"
    /\ evsent = [s \in Sources |-> <<>>]
    /\ tpc = "idle"
    /\ elapsed = 0
    /\ polls = 0
    /\ included = NoResponse
    /\ tfound = NoFound
    /\ tres = NoTxResult
    /\ opc = "idle"
    /\ epc = "idle"
    /\ eop = "query_clients"
    /\ eresp = <<>>
    /\ eres = NoEnumResult
    /\ earg = IdEmpty
    /\ astate = "unconstructed"
    /\ acfg = NoConfig
    /\ client_id = None
    /\ connection_id = None
    /\ clientIdSets = 0
    /\ ares = NoOutcome
    /\ fpc = "idle"
    /\ fev = NoHeader
    /\ fverdict = "None"
    /\ fqueries = {}
    /\ fres = NoFinalityResult

SpecVerifier == Init /\ [][VerifierNext]_vars

SpecQuery == Init /\ [][QueryNext]_vars

SpecEvents == Init /\ [][EventsNext]_vars

SpecTx == Init /\ [][TxNext]_vars

\* Each tx_search call returns and each sleep ends.
SpecTxLive ==
    /\ Init
    /\ [][TxNext]_vars
    /\ WF_vars(SearchReturns \/ SearchFails)
    /\ WF_vars(SleepReturns)

SpecEnum == Init /\ [][EnumNext]_vars

SpecFacade == Init /\ [][FacadeNext]_vars

SpecFinality == Init /\ [][FinalityNext]_vars

----------------------------------------------------------------------------
(* Properties of the light client *)

Finishing(t) == vpc[t] = "verifying" /\ vpc'[t] = "idle"

Rejected(t) == vres[t].kind \in VerifyErrors \cup {"Err"}

\* C1: the trusted height never decreases, and every change of the trusted
\* header is made by a verification that returns success and replaces it
\* with the candidate header, of strictly greater height.
C1_TrustedOnlyAdvances ==
    [][trusted' # trusted =>
        /\ trusted'.height > trusted.height
        /\ \E t \in Tasks :
              /\ Finishing(t)
              /\ vres'[t].kind = "Ok"
              /\ vres'[t].advanced
              /\ trusted' = vcand[t]]_vars

\* a failed and a successful verification both happened
C1_Witness ==
    /\ trusted.height >= 3
    /\ \E t \in Tasks : Rejected(t)

\* C2: a successful verification of a header above the trusted height leaves
\* the trusted height at that header's height; a verification of a header at
\* or below the trusted height returns success and changes nothing.
C2_AdvanceThenReplayNoOp ==
    [][\A t \in Tasks : Finishing(t) =>
        /\ (vcand[t].height > trusted.height /\ vres'[t].kind = "Ok")
              => trusted'.height = vcand[t].height
        /\ vcand[t].height <= trusted.height
              => /\ vres'[t].kind = "Ok"
                 /\ ~vres'[t].advanced
                 /\ trusted' = trusted]_vars

\* h2 was verified after h1, and a replay below h2 returned success
C2_Witness ==
    /\ trusted.height >= 2
    /\ \E t \in Tasks :
          /\ vres[t].kind = "Ok"
          /\ ~vres[t].advanced
          /\ vres[t].height < trusted.height
    /\ \E t \in Tasks :
          /\ vres[t].kind = "Ok"
          /\ vres[t].advanced
          /\ vres[t].height = trusted.height

Reported(t, err) ==
    IF vop[t] = "init_client_state" THEN vres'[t].kind = "Err"
    ELSE vres'[t].kind = err

\* C3: a candidate above the trusted height that is rejected (expired trust,
\* clock drift, no voting power of the trusted validators) is reported to the
\* caller as that failure, and the trust anchor is left as it was.
C3_RejectionLeavesTrust ==
    [][\A t \in Tasks : (Finishing(t) /\ vcand[t].height > trusted.height) =>
        LET expired == now - trusted.time > TrustingPeriod
            drift == vcand[t].time > now + MaxClockDrift
            nopower == vcand[t].vals \cap trusted.vals = {}
                         /\ vcand[t].vals = ForgedVals
        IN  /\ expired => Reported(t, "ExpiredTrustError")
            /\ (~expired /\ drift) => Reported(t, "TimeDriftError")
            /\ (~expired /\ ~drift /\ nopower) => Reported(t, "TrustError")
            /\ (expired \/ drift \/ nopower) => trusted' = trusted]_vars

\* a rejection was returned and the next verification starts from the anchor
C3_Witness ==
    \E t, u \in Tasks :
        /\ vres[t].kind = "Err"
        /\ vpc[u] = "verifying"
        /\ vbase[u] = trusted
        /\ trusted.height >= 2

----------------------------------------------------------------------------
(* Properties of the key-value query *)

UnprovableCall == qpc # "idle" /\ ~is_provable(qreq.path) /\ qreq.prove

\* C5 as stated: a proof query for a non-provable path fails with the
\* unprovable-path error at every height, and sends no request.
C5_Original ==
    UnprovableCall => /\ qres.kind = "UnprovablePath"
                      /\ ~qnet.sent

\* C5 (amended): a proof query for a non-provable path never sends a request
\* and fails at once: with the unprovable-path error when its height is a
\* valid tendermint height, with the invalid-height error otherwise.
C5_UnprovableRejectedLocally ==
    UnprovableCall =>
        /\ qpc = "done"
        /\ ~qnet.sent
        /\ qres.kind = IF qreq.height.revision_height <= TmHeightMax
                       THEN "UnprovablePath" ELSE "InvalidHeight"

C5_Witness ==
    /\ UnprovableCall
    /\ qres.kind = "UnprovablePath"
    /\ qreq.height.revision_height > 0

----------------------------------------------------------------------------
(* Properties of the event pipeline *)

ModuleOfType(type) ==
    CASE type \in {"CreateClient", "UpdateClient"} -> "ibc_client"
      [] type = "OpenInitConnection" -> "ibc_connection"
      [] type = "SendPacket" -> "ibc_channel"
      [] OTHER -> "none"

\* The module tag of subscription s ("none" for the new-block subscription)
ModuleTag(s) == IF query_all[s][1] = "message.module" THEN query_all[s][2] ELSE "none"

Polled(s) == evq[s] # <<>> /\ evdone' = Append(evdone, [src |-> s, notif |-> Head(evq[s])])

\* The raw events of a transaction that parse and whose type belongs to the
\* module of subscription s, parsed, in the transaction's order.
MatchingEvents(s, raws) ==
    LET Match(raw) == /\ ParsesAsIbcEvent(raw)
                      /\ ModuleTag(s) # "none"
                      /\ ModuleOfType(IbcEventType(raw.kind)) = ModuleTag(s)
        sel == SelectSeq(raws, Match)
    IN  [i \in 1..Len(sel) |->
            [src |-> s, ok |-> TRUE,
             ev |-> [type |-> IbcEventType(sel[i].kind), id |-> sel[i].attr]]]

\* C6: polling a transaction-result notification yields exactly the raw
\* events that parse and whose type matches the module tag of the
\* subscription that delivered it.
C6_TxEventsMatchSubscription ==
    [][\A s \in Sources :
        (Polled(s) /\ Head(evq[s]).data = "Tx")
            => evout' = evout \o MatchingEvents(s, Head(evq[s]).events)]_vars

\* the transaction with one client and one channel event, delivered by the
\* client and by the channel subscription
C6_Witness ==
    /\ Len(evdone) = 2
    /\ {evdone[1].src, evdone[2].src} = {2, 4}
    /\ evdone[1].notif.events = <<RawCreate1, RawChan>>
    /\ evdone[2].notif.events = <<RawCreate1, RawChan>>
    /\ {evout[i] : i \in 1..Len(evout)} =
          { [src |-> 2, ok |-> TRUE, ev |-> [type |-> "CreateClient", id |-> 1]],
            [src |-> 4, ok |-> TRUE, ev |-> [type |-> "SendPacket", id |-> 1]] }
    /\ Len(evout) = 2

----------------------------------------------------------------------------
(* Properties of the transaction search *)

\* a tx_search call has returned a response (the transport did not fail)
SearchAnswered ==
    tpc = "searching" /\ tpc' # "searching" /\ tres'.kind # "TransportError"

FoundKinds == {"Ok", "TransactionExecutionError", "UnexpectedEventCount"}

\* C7: the poll at which the transaction is in the search results, before
\* the timeout, ends the loop with that response; no search follows it.
C7_FoundEndsPolling ==
    [][/\ (SearchAnswered /\ included.found /\ elapsed' <= TIME_OUT)
            => /\ tpc' = "done"
               /\ tfound' = [poll |-> polls', response |-> included]
               /\ tres'.kind \in FoundKinds
       /\ tfound'.poll > 0 => tpc' = "done"]_vars

\* found at the third poll, before the timeout
C7_Witness ==
    /\ tfound.poll = 3
    /\ polls = 3
    /\ tfound.response.found
    /\ elapsed < TIME_OUT
    /\ tres.kind = "Ok"

\* C8: the inclusion timeout is returned only for a hash that is not in the
\* search results and only once the elapsed time is beyond the timeout; a
\* search without a match before that is followed by a sleep of at least
\* WAIT_BACKOFF and another search.
C8_TimeoutNotEarlier ==
    [][/\ tres'.kind = "InclusionTimeout"
            => (elapsed' >= TIME_OUT /\ ~included'.found /\ tfound'.poll = 0)
       /\ (SearchAnswered /\ ~included.found)
            => IF elapsed' > TIME_OUT
               THEN tpc' = "done" /\ tres'.kind = "InclusionTimeout"
               ELSE tpc' = "sleeping" /\ tres' = NoTxResult
       /\ (tpc = "sleeping" /\ tpc' # "sleeping")
            => (tpc' = "searching" /\ elapsed' >= elapsed + WAIT_BACKOFF)]_vars

C8_Witness ==
    /\ tpc = "done"
    /\ tres.kind = "InclusionTimeout"
    /\ elapsed > TIME_OUT
    /\ polls = MaxCountedPolls
    /\ ~included.found

\* C9: a found transaction with a failure code gives the execution error
\* with that code and log, and no client id, whatever its events.
C9_FailedTxNoClientId ==
    (tfound.poll > 0 /\ tfound.response.code # 0)
        => /\ tres.kind = "TransactionExecutionError"
           /\ tres.code = tfound.response.code
           /\ tres.log = tfound.response.log
           /\ tres.client_id = <<>>

\* a failed transaction that carries exactly one creation event
C9_Witness ==
    /\ tfound.poll > 0
    /\ tfound.response.code # 0
    /\ tfound.response.events = <<RawCreate1>>
    /\ tres.kind = "TransactionExecutionError"

\* The creation events of a transaction: positions of the create_client
\* events whose attributes parse.
CreationPositions(raws) ==
    {i \in DOMAIN raws : raws[i].kind = "create_client" /\ raws[i].attr # 0}

\* C10: for a found, successful transaction the call returns a client id
\* exactly when the events hold one creation event, and then that event's
\* id; otherwise it fails with the event count and returns no client id.
C10_ExactlyOneCreateClient ==
    (tfound.poll > 0 /\ tfound.response.code = 0)
        => LET raws == tfound.response.events
               pos == CreationPositions(raws)
           IN  IF Cardinality(pos) = 1
               THEN /\ tres.kind = "Ok"
                    /\ \A i \in pos : tres.client_id = <<"07-tendermint", raws[i].attr>>
               ELSE /\ tres.kind = "UnexpectedEventCount"
                    /\ tres.count = Cardinality(pos)
                    /\ tres.client_id = <<>>

\* zero, one and two creation events were all met
C10_Witness ==
    /\ tfound.poll > 0
    /\ tfound.response.code = 0
    /\ tfound.response.events = <<RawCreate1, RawCreate2>>
    /\ tres.kind = "UnexpectedEventCount"
    /\ tres.count = 2

----------------------------------------------------------------------------
(* Properties of the enumeration queries *)

EntryParses(op, e) ==
    IF op = "query_clients" THEN ValidIdentifier(e.client_id)
    ELSE ValidIdentifier(e.channel_id) /\ ValidIdentifier(e.port_id)

\* The entries of a response that parse, converted, in the response's order
ParsingEntries(op, entries) ==
    LET Good(e) == EntryParses(op, e)
        sel == SelectSeq(entries, Good)
    IN  [i \in 1..Len(sel) |->
            IF op = "query_clients"
            THEN [type |-> "ClientId", str |-> sel[i].client_id]
            ELSE << [type |-> "ChannelId", str |-> sel[i].channel_id],
                    [type |-> "PortId", str |-> sel[i].port_id] >>]

EnumAnswered ==
    /\ epc = "awaiting" /\ epc' = "done" /\ eresp' # <<>>
    /\ eop \in {"query_clients", "query_channels"}

\* C11: when the node's response arrives, query_clients and query_channels
\* succeed with exactly the entries whose identifiers parse, in the
\* response's order, whatever entries do not parse.
C11_MalformedEntriesDropped ==
    [][EnumAnswered =>
        /\ eres'.kind = "Ok"
        /\ eres'.list = ParsingEntries(eop, eresp')]_vars

\* one malformed and two well-formed entries give the two well-formed ones
C11_Witness ==
    /\ epc = "done"
    /\ eop = "query_channels"
    /\ eresp = << [channel_id |-> IdClient0, port_id |-> IdPort],
                  [channel_id |-> IdSlash, port_id |-> IdPort],
                  [channel_id |-> IdClient1, port_id |-> IdPort] >>
    /\ eres.kind = "Ok"
    /\ Len(eres.list) = 2

----------------------------------------------------------------------------
(* Properties of the key-value query, continued *)

\* A call that the provability check lets through
ProvabilityPassed == qpc # "idle" /\ (is_provable(qreq.path) \/ ~qreq.prove)

ZeroHeight == [revision_number |-> 0, revision_height |-> 0]

\* C12 as stated: the zero height is queried at the node's head, and every
\* other height is sent to the node as it is.
C12_Original ==
    ProvabilityPassed =>
        /\ qnet.sent
        /\ IF qreq.height = ZeroHeight
           THEN ~qnet.some_height
           ELSE qnet.some_height /\ qnet.height = qreq.height.revision_height

\* C12: query looks at the revision height only: when it is zero, whatever the
\* revision number, the request carries no height; when it is a tendermint
\* height other than zero, the request carries exactly it; when it is not a
\* tendermint height, no request is sent and the call fails.
C12_RevisionHeightDecides ==
    ProvabilityPassed =>
        IF ~TmHeightFits(qreq.height.revision_height)
        THEN ~qnet.sent /\ qres.kind = "InvalidHeight"
        ELSE /\ qnet.sent
             /\ qnet.some_height <=> qreq.height.revision_height # 0
             /\ qnet.some_height => qnet.height = qreq.height.revision_height

\* a height of revision 1 and revision height 0 is queried at the head
C12_Witness ==
    /\ qnet.sent
    /\ qreq.height.revision_number = 1
    /\ qreq.height.revision_height = 0
    /\ ~qnet.some_height

\* C13: when the node answers with a code other than success, query fails
\* with the rejection error carrying the code and the log, and returns
\* neither the value nor the proof of the response.
C13_RejectedResponseNotReturned ==
    (qresp.received /\ qresp.ok /\ qresp.code # 0) =>
        /\ qres.kind = "QueryRejected"
        /\ qres.code = qresp.code
        /\ qres.log = qresp.log
        /\ qres.value = ""
        /\ qres.proof = ""
        /\ chres.kind # "Ok"

\* a rejected response that carried a value and a proof
C13_Witness ==
    /\ qpc = "done"
    /\ qresp.ok
    /\ qresp.code = 5
    /\ qresp.log = "not found"
    /\ qresp.value = "v1"
    /\ qresp.proof = "p1"
    /\ qres.kind = "QueryRejected"

\* C20 as stated: a successful result carries the proof the node returned;
\* query_channel_end returns the channel end with the proof of its query.
C20_ChannelEndCarriesProof ==
    /\ qres.kind = "Ok" => qres.proof = qresp.proof
    /\ (qop = "query_channel_end" /\ chres.kind = "Ok") =>
            /\ chres.channel = ChannelEndOf(qresp.value)
            /\ chres.proof = qresp.proof

----------------------------------------------------------------------------
(* Properties of the event pipeline, continued *)

ErrorItems == {i \in DOMAIN evout : ~evout[i].ok}

\* C14 as stated: a failure to connect and an error item of a subscription
\* reach the consumer as a SubscriptionError, and nothing is yielded after it.
C14_FailureEndsStream ==
    /\ evstate = "panicked" => ErrorItems # {}
    /\ \A k \in DOMAIN evdone :
          evdone[k].notif.data = "Error" =>
              \E i \in ErrorItems : evout[i].src = evdone[k].src
    /\ \A i \in ErrorItems : i = Len(evout)

----------------------------------------------------------------------------
(* Properties of the adapter's construction, identity and unwired operations *)

\* C15 as stated: after construction each identifier is set at most once, and
\* an identifier that was set in setup does not change again.
C15_IdentifiersSetOnce ==
    [][/\ (astate = "ready" /\ client_id' # client_id) => clientIdSets = 0
       /\ (astate = "ready" /\ connection_id' # connection_id) => ~IsSome(connection_id)]_vars

RequiredOptionsValid(config) ==
    config.rpc_url_ok /\ config.light_client_ok /\ config.key_ok /\ config.store_prefix_ok

\* C16 as stated: new succeeds on a configuration without the optional
\* identifiers whose required options are valid, and the adapter's
\* identifiers are unset until an identity mutation.
C16_AbsentIdsConstruct ==
    (/\ astate # "unconstructed"
     /\ ~IsSome(acfg.client_id) /\ ~IsSome(acfg.connection_id)
     /\ RequiredOptionsValid(acfg)
     /\ clientIdSets = 0)
        => (astate = "ready" /\ ~IsSome(client_id) /\ ~IsSome(connection_id))

\* C19 as stated: an operation that is not wired returns the explicit
\* not-implemented error, never success.
C19_UnwiredIsExplicitError ==
    ares.op \in UnwiredOps => ares.kind = "NotImplementedError"

----------------------------------------------------------------------------
(* Properties of the light-client verifier, continued *)

Calling(t, op) == vpc[t] = "idle" /\ vpc'[t] = "verifying" /\ vop'[t] = op

InTime(base, cand) ==
    now - base.time <= TrustingPeriod /\ cand.time <= now + MaxClockDrift

\* C17: initialize_client_state verifies the light block at the chain's latest
\* height h and, when it succeeds, returns the client state with latest height
\* h and the consensus state of the block verified at h, which is then the
\* trusted height; a later verify of a header at the trusted height plus one
\* that has the voting power (and is within the trusting period and the clock
\* drift) succeeds and advances the trusted height by one.
C17_InitializeThenVerifyNext ==
    [][\A t \in Tasks :
        /\ Calling(t, "init_client_state") => vcand'[t].height = chainHeight
        /\ (Finishing(t) /\ vop[t] = "init_client_state" /\ vres'[t].kind = "Ok") =>
              /\ vres'[t].latest_height = vcand[t].height
              /\ vres'[t].height = vcand[t].height
              /\ trusted'.height = vcand[t].height
        /\ (/\ Finishing(t) /\ vop[t] = "verify"
            /\ vcand[t].height = trusted.height + 1
            /\ HasTrust(trusted.vals, vcand[t].vals)
            /\ InTime(trusted, vcand[t])) =>
              /\ vres'[t].kind = "Ok"
              /\ trusted'.height = trusted.height + 1]_vars

\* initialize_client_state succeeded at height 2, then a verify advanced the
\* trusted height to 3
C17_Witness ==
    \E t, u \in Tasks :
        /\ vres[t].kind = "Ok" /\ vres[t].latest_height = 2 /\ vres[t].height = 2
        /\ vres[u].kind = "Ok" /\ vres[u].latest_height = 0
        /\ vres[u].advanced /\ vres[u].height = 3
        /\ trusted.height = 3

----------------------------------------------------------------------------
(* Properties of query_latest_ibc_events *)

\* C18: while a finality event is handled, proof and state queries are made
\* and a triple is returned only after the verifier accepted the announced
\* head, the triple is the one of that head, and when the verifier rejects
\* the head the call returns the verifier's error with no payload and no
\* events, having made no query.
C18_VerificationFirst ==
    /\ (fqueries # {} \/ fres.kind = "Ok") => fverdict = "Ok"
    /\ fres.kind = "Ok" => (fres.payload = fev.height /\ fqueries = ProofQueries)
    /\ fverdict \in VerifyErrors =>
          /\ fpc = "done"
          /\ fres.kind = fverdict
          /\ fres.payload = 0
          /\ fres.events = <<>>
          /\ fqueries = {}

\* a head above the trusted height was rejected and the call returned the error
C18_Witness ==
    /\ fpc = "done"
    /\ fverdict = "TrustError"
    /\ fres.kind = "TrustError"
    /\ fev.height > trusted.height

----------------------------------------------------------------------------
(* Properties of the enumeration queries, continued *)

\* The connections of a response that convert and belong to the client
ConnectionsOfClient(entries, client) ==
    LET Good(co) == /\ ValidIdentifier(co.id)
                    /\ ValidIdentifier(co.client_id)
                    /\ co.client_id = client
        sel == SelectSeq(entries, Good)
    IN  [i \in 1..Len(sel) |->
            [type |-> "IdentifiedConnection",
             connection_id |-> [type |-> "ConnectionId", str |-> sel[i].id],
             client_id |-> [type |-> "ClientId", str |-> sel[i].client_id]]]

\* C21 as stated: query_connection_using_client returns exactly the
\* connections of the response that belong to the given client.
C21_ConnectionsOfGivenClient ==
    (epc = "done" /\ eop = "query_connection_using_client" /\ eres.kind = "Ok") =>
        /\ \A i \in DOMAIN eres.list : eres.list[i].client_id.str = earg
        /\ eres.list = ConnectionsOfClient(eresp, earg)

----------------------------------------------------------------------------
(* Properties of the event pipeline: malformed events *)

\* The items a step appended to the output stream
Appended == SubSeq(evout', Len(evout) + 1, Len(evout'))

HasMalformed(raws) == \E j \in DOMAIN raws : ~ParsesAsIbcEvent(raws[j])

\* C22: when a transaction-result notification holding a raw event that does
\* not parse is polled, no error item is yielded and every raw event of the
\* transaction that parses and belongs to the subscription's module is
\* yielded, also those after the malformed one.
C22_MalformedEventSkipped ==
    [][\A s \in Sources :
        (Polled(s) /\ Head(evq[s]).data = "Tx" /\ HasMalformed(Head(evq[s]).events)) =>
            LET raws == Head(evq[s]).events
            IN  /\ Len(evout') >= Len(evout)
                /\ \A i \in DOMAIN Appended : Appended[i].ok
                /\ \A j \in DOMAIN raws :
                      (/\ ParsesAsIbcEvent(raws[j])
                       /\ ModuleTag(s) # "none"
                       /\ ModuleOfType(IbcEventType(raws[j].kind)) = ModuleTag(s)) =>
                          \E i \in DOMAIN Appended :
                              Appended[i].ev = [type |-> IbcEventType(raws[j].kind),
                                                id |-> raws[j].attr]]_vars

\* the client subscription delivered a transaction whose first raw event is
\* malformed: the event after it was yielded, and no error
C22_Witness ==
    /\ Len(evdone) = 1
    /\ evdone[1].src = 2
    /\ evdone[1].notif.events = <<RawCreateBad, RawCreate1>>
    /\ evout = << [src |-> 2, ok |-> TRUE, ev |-> [type |-> "CreateClient", id |-> 1]] >>

----------------------------------------------------------------------------
(* Properties of the event pipeline: order and duplicates *)

\* The notifications of subscription s polled so far, in the order polled
PolledFrom(s) ==
    LET FromS(d) == d.src = s
        sel == SelectSeq(evdone, FromS)
    IN  [k \in 1..Len(sel) |-> sel[k].notif]

\* The items of the output stream that came from subscription s, in order
YieldedFrom(s) ==
    LET FromS(item) == item.src = s
    IN  SelectSeq(evout, FromS)

RECURSIVE YieldOfAll(_, _)
YieldOfAll(s, notifs) ==
    IF notifs = <<>> THEN <<>>
    ELSE Yielded(s, Head(notifs)) \o YieldOfAll(s, Tail(notifs))

C26_EventYieldedOnce ==
    /\ \A i, j \in DOMAIN evout :
          (evout[i].ok /\ evout[j].ok /\ evout[i].ev = evout[j].ev) =>
              evout[i].src = evout[j].src
    /\ \A i \in DOMAIN evout :
          evout[i].ok =>
              IF evout[i].ev.type = "NewBlock" THEN ModuleTag(evout[i].src) = "none"
              ELSE ModuleOfType(evout[i].ev.type) = ModuleTag(evout[i].src)

\* the same transaction came through the new-block and the client
\* subscription: its client event was yielded once
C26_Witness ==
    /\ Len(evdone) = 2
    /\ {evdone[1].src, evdone[2].src} = {1, 2}
    /\ evdone[1].notif.events = <<RawUpdate, RawChan>>
    /\ evdone[2].notif.events = <<RawUpdate, RawChan>>
    /\ evout = << [src |-> 2, ok |-> TRUE, ev |-> [type |-> "UpdateClient", id |-> 1]] >>

----------------------------------------------------------------------------
(* Properties of the transaction search: waiting and termination *)

\* C24 as stated: while the call waits for its next poll, another operation
\* running on the same scheduler can take its step.
C24_WaitDoesNotStall ==
    (tpc = "sleeping" /\ opc = "running") => ENABLED OtherStep

TxOutcomes ==
    {"Ok", "InclusionTimeout", "TransactionExecutionError", "UnexpectedEventCount",
     "TransportError"}

\* C25: when every search call returns, a call of query_client_id_from_tx_hash
\* ends, with one of the five outcomes; it waits only while the time out has
\* not passed and every wait adds at least the back-off to the elapsed time,
\* which bounds the number of polls.
C25_Terminates ==
    /\ [](tpc = "done" => tres.kind \in TxOutcomes)
    /\ [](tpc = "sleeping" => elapsed <= TIME_OUT)
    /\ [][(tpc = "sleeping" /\ tpc' = "searching") =>
            elapsed' >= elapsed + WAIT_BACKOFF]_vars
    /\ (tpc = "searching" ~> tpc = "done")

\* a call that polled, waited, polled again and ended with the time out
C25_Witness ==
    /\ tpc = "done"
    /\ tres.kind = "InclusionTimeout"
    /\ polls = MaxCountedPolls
    /\ elapsed > TIME_OUT

====
